---- MODULE Spec2Model ----
(***************************************************************************)
(* Model of the ex_tholos_pq NIF (native/ex_tholos_pq_nif/src/lib.rs):     *)
(* two process-wide registries guarded by one mutex each, and the four     *)
(* NIFs gen_recipient_keypair, gen_sender_keypair, encrypt and decrypt,    *)
(* run by concurrent callers.  Each NIF is split at the points where the   *)
(* source can block (Mutex::lock) or return (the `?` operators).           *)
(***************************************************************************)
EXTENDS Integers, Sequences, FiniteSets, TLC

\* ---------------------------------------------------------------- bounds
NumProcs == 2          \* concurrent callers (scheduler threads)
MaxKeys == 3           \* keypairs generated in one run
MaxSeals == 1          \* encrypt calls in one run
MaxOpens == 1          \* decrypt calls in one run
MaxRecipients == 1     \* length of the recipient list / allow-list of a call
MaxFaults == 1         \* serialization, allocation and library failures in one run

Procs == 1..NumProcs
KIDS == {"alice", "carol"}
SIDS == {"bob", "dave"}
Messages == {"hello"}
NoProc == 0
Null == <<>>

\* ------------------------------------------------------------- results
Ok(v) == [tag |-> "ok", val |-> v]
Err(k) == [tag |-> "error", kind |-> k]
NoResult == [tag |-> "none"]

\* ------------------------------------------------- keys and serialization
\* A keypair is identified by the number g of the keygen call that made it;
\* the public half <<"pk", g>> matches the private half <<"sk", g>> only.
RecipientPub(kid, g) == [kid |-> kid, pk_kyber |-> <<"pk", g>>]
RecipientPriv(g) == [sk_kyber |-> <<"sk", g>>]
RecipientEntry(kid, g) == <<RecipientPub(kid, g), RecipientPriv(g)>>
SenderKeypair(sid, g) ==
  [sid |-> sid, pk_dilithium |-> <<"pk", g>>, sk_dilithium |-> <<"sk", g>>]
sender_pub(sender) == [sid |-> sender.sid, pk_dilithium |-> sender.pk_dilithium]

\* serde_cbor::to_vec: a binary that carries the type it was encoded from.
to_vec(typ, v) == <<"cbor", typ, v>>
Junk == <<"junk">>
\* serde_cbor::from_slice::<typ>: fails on bytes that are no encoding of typ.
from_slice_ok(typ, b) == Len(b) = 3 /\ b[1] = "cbor" /\ b[2] = typ
from_slice(b) == b[3]

\* ------------------------------------------- tholos_pq primitives (4.2, 4.3)
FirstMatch(s, Test(_)) ==
  IF \E i \in 1..Len(s) : Test(s[i])
  THEN CHOOSE i \in 1..Len(s) : Test(s[i]) /\ \A j \in 1..(i - 1) : ~Test(s[j])
  ELSE 0

kem_encapsulate(pk, ck) == [to |-> pk[2], secret |-> ck]
kem_decapsulate(sk, ek) == IF ek.to = sk[2] THEN Ok(ek.secret) ELSE Err("Failed")
sign(sk, digest) == [signer |-> sk[2], digest |-> digest]
verify(pk, digest, sig) == sig.signer = pk[2] /\ sig.digest = digest
aead_encrypt(ck, pt) == [key |-> ck, body |-> pt, intact |-> TRUE]
aead_decrypt(ck, payload) ==
  IF payload.key = ck /\ payload.intact THEN Ok(payload.body) ELSE Err("Failed")

RecipientIds(entries) == [i \in 1..Len(entries) |-> entries[i].recipient_id]
CanonicalDigest(sender_id, rids, payload) ==
  [sender_id |-> sender_id, recipient_ids |-> rids, payload |-> payload]

\* tholos_pq::encrypt(message, sender, recipients): one envelope for all
\* recipients, signed by the sender; ck is the fresh ContentKey.
TholosEncrypt(message, sender, recipients, ck) ==
  LET payload == aead_encrypt(ck, message)
      entries == [i \in 1..Len(recipients) |->
                    [recipient_id |-> recipients[i].kid,
                     encapsulated_key |-> kem_encapsulate(recipients[i].pk_kyber, ck)]]
      digest == CanonicalDigest(sender.sid, RecipientIds(entries), payload)
  IN [res |-> Ok([sender_id |-> sender.sid, recipients |-> entries,
                  payload |-> payload,
                  signature |-> sign(sender.sk_dilithium, digest)]),
      prims |-> <<"aead_encrypt", "kem_encapsulate", "sign">>]

\* A decrypt that recovers the payload first and checks the signature last.
TholosDecryptDecapFirst(wire, kid, sk_kyber, allowed) ==
  LET ei == FirstMatch(wire.recipients, LAMBDA e : e.recipient_id = kid)
      digest == CanonicalDigest(wire.sender_id, RecipientIds(wire.recipients),
                                wire.payload)
      ai == FirstMatch(allowed, LAMBDA a : a[1] = wire.sender_id)
      all == <<"kem_decapsulate", "aead_decrypt", "verify">>
  IN IF ei = 0 THEN [res |-> Err("RecipientNotAddressed"), prims |-> <<>>]
     ELSE IF ai = 0 THEN [res |-> Err("UntrustedSender"), prims |-> <<>>]
     ELSE LET ck == kem_decapsulate(sk_kyber, wire.recipients[ei].encapsulated_key)
          IN IF ck.tag = "error"
             THEN [res |-> Err("DecapsulationFailed"), prims |-> <<"kem_decapsulate">>]
             ELSE LET pt == aead_decrypt(ck.val, wire.payload)
                  IN IF ~verify(allowed[ai][2], digest, wire.signature)
                     THEN [res |-> Err("SignatureInvalid"), prims |-> all]
                     ELSE IF pt.tag = "error"
                     THEN [res |-> Err("PayloadAuthenticationFailed"), prims |-> all]
                     ELSE [res |-> Ok(pt.val), prims |-> all]

\* tholos_pq::decrypt(wire, kid, sk_kyber, allowed): steps 2-8 of the open
\* protocol; prims lists the primitives invoked, in order.
TholosDecrypt(wire, kid, sk_kyber, allowed) ==
  LET ei == FirstMatch(wire.recipients, LAMBDA e : e.recipient_id = kid)
      digest == CanonicalDigest(wire.sender_id, RecipientIds(wire.recipients),
                                wire.payload)
      ai == FirstMatch(allowed, LAMBDA a : a[1] = wire.sender_id)
  IN IF ei = 0 THEN [res |-> Err("RecipientNotAddressed"), prims |-> <<>>]
     ELSE IF ai = 0 THEN [res |-> Err("UntrustedSender"), prims |-> <<>>]
     ELSE IF ~verify(allowed[ai][2], digest, wire.signature)
       THEN [res |-> Err("SignatureInvalid"), prims |-> <<"verify">>]
     ELSE LET ck == kem_decapsulate(sk_kyber, wire.recipients[ei].encapsulated_key)
          IN IF ck.tag = "error"
             THEN [res |-> Err("DecapsulationFailed"),
                   prims |-> <<"verify", "kem_decapsulate">>]
             ELSE LET pt == aead_decrypt(ck.val, wire.payload)
                  IN IF pt.tag = "error"
                     THEN [res |-> Err("PayloadAuthenticationFailed"),
                           prims |-> <<"verify", "kem_decapsulate", "aead_decrypt">>]
                     ELSE [res |-> Ok(pt.val),
                           prims |-> <<"verify", "kem_decapsulate", "aead_decrypt">>]

\* An envelope altered in transit: a bit of the ciphertext flipped.
Tamper(w) == [w EXCEPT !.payload.intact = FALSE]

\* ------------------------------------------------------------------ state
VARIABLES
  RECIPIENT_KEYS,   \* kid -> <<RecipientPub, RecipientPriv>>
  SENDER_KEYS,      \* sid -> SenderKeypair
  rlock, slock,     \* holder of each Mutex, NoProc when free
  pc, call, loc, result,   \* per caller: position, arguments, locals, return value
  nextKey, nSeal, nOpen,   \* calls made so far
  faults,                  \* failures injected so far
  issuedR, issuedS, sealed \* what the callers have been handed back

vars == <<RECIPIENT_KEYS, SENDER_KEYS, rlock, slock, pc, call, loc, result,
          nextKey, nSeal, nOpen, faults, issuedR, issuedS, sealed>>

registries == <<RECIPIENT_KEYS, SENDER_KEYS>>
calls == <<nextKey, nSeal, nOpen>>
counters == <<calls, faults>>
handed == <<issuedR, issuedS, sealed>>

NoCall == [op |-> "none", id |-> "", message |-> "", bins |-> <<>>, wire |-> Null]
NoLoc == [key |-> 0, parsed |-> <<>>, out |-> Null, prims |-> <<>>]

Init ==
  /\ RECIPIENT_KEYS = <<>>
  /\ SENDER_KEYS = <<>>
  /\ rlock = NoProc
  /\ slock = NoProc
  /\ pc = [p \in Procs |-> "idle"]
  /\ call = [p \in Procs |-> NoCall]
  /\ loc = [p \in Procs |-> NoLoc]
  /\ result = [p \in Procs |-> NoResult]
  /\ nextKey = 1
  /\ nSeal = 0
  /\ nOpen = 0
  /\ faults = 0
  /\ issuedR = {}
  /\ issuedS = {}
  /\ sealed = {}

\* An insert that rebuilds the map from the new entry alone.
InsertLosing(map, k, v) == [x \in {k} |-> v]

\* HashMap::insert: adds the entry, replacing the one already under the key.
Insert(map, k, v) == [x \in (DOMAIN map) \cup {k} |-> IF x = k THEN v ELSE map[x]]

\* A guard that is leaked (mem::forget) instead of dropped.
KeepGuard(lock, p) == lock

\* A return from a NIF: every MutexGuard still alive is dropped.
Drop(lock, p) == IF lock = p THEN NoProc ELSE lock

Return(p, r, key, prims) ==
  /\ pc' = [pc EXCEPT ![p] = "idle"]
  /\ result' = [result EXCEPT ![p] = r]
  /\ loc' = [loc EXCEPT ![p] = [NoLoc EXCEPT !.key = key, !.prims = prims]]
  /\ rlock' = Drop(rlock, p)
  /\ slock' = Drop(slock, p)

Goto(p, label, l) ==
  /\ pc' = [pc EXCEPT ![p] = label]
  /\ loc' = [loc EXCEPT ![p] = l]

\* A step that can fail for a reason outside the model (serde_cbor::to_vec,
\* OwnedBinary::new, the library's encapsulation) either succeeds or fails.
Succeeds == UNCHANGED faults
Fails == faults < MaxFaults /\ faults' = faults + 1

\* Mutex::lock: blocks until the mutex is free.
CanLock(lock) == lock = NoProc

\* ------------------------------------------------- gen_recipient_keypair
\* lines 32-36: keygen, then serialization of the public key.
GenRecipientStart(p, kid) ==
  /\ pc[p] = "idle"
  /\ nextKey <= MaxKeys
  /\ nextKey' = nextKey + 1
  /\ call' = [call EXCEPT ![p] =
                [NoCall EXCEPT !.op = "gen_recipient_keypair", !.id = kid]]
  /\ \/ /\ Goto(p, "gr_insert",
                [NoLoc EXCEPT !.key = nextKey,
                   !.out = to_vec("RecipientPub", RecipientPub(kid, nextKey))])
        /\ result' = [result EXCEPT ![p] = NoResult]
        /\ UNCHANGED <<rlock, slock>>
        /\ Succeeds
     \/ /\ Return(p, Err("SerializationFailed"), nextKey, <<>>)
        /\ Fails
  /\ UNCHANGED <<registries, nSeal, nOpen, handed>>

\* lines 39-42: RECIPIENT_KEYS.lock().unwrap().insert(kid, (pub_key, priv_key));
\* the guard is a temporary of the statement and is dropped at its end.
GenRecipientInsert(p) ==
  /\ pc[p] = "gr_insert"
  /\ CanLock(rlock)
  /\ RECIPIENT_KEYS' = Insert(RECIPIENT_KEYS, call[p].id,
                              RecipientEntry(call[p].id, loc[p].key))
  /\ pc' = [pc EXCEPT ![p] = "gr_alloc"]
  /\ UNCHANGED <<SENDER_KEYS, rlock, slock, call, loc, result, counters, handed>>

\* lines 44-47: the output binary is allocated, then {ok, {kid, pub}} returned.
GenRecipientFinish(p) ==
  /\ pc[p] = "gr_alloc"
  /\ \/ /\ Return(p, Ok(<<call[p].id, loc[p].out>>), loc[p].key, <<>>)
        /\ issuedR' = issuedR \cup {loc[p].out}
        /\ Succeeds
     \/ /\ Return(p, Err("allocation_failed"), loc[p].key, <<>>)
        /\ UNCHANGED issuedR
        /\ Fails
  /\ UNCHANGED <<registries, call, calls, issuedS, sealed>>

\* ---------------------------------------------------- gen_sender_keypair
\* lines 57-62
GenSenderStart(p, sid) ==
  /\ pc[p] = "idle"
  /\ nextKey <= MaxKeys
  /\ nextKey' = nextKey + 1
  /\ call' = [call EXCEPT ![p] =
                [NoCall EXCEPT !.op = "gen_sender_keypair", !.id = sid]]
  /\ \/ /\ Goto(p, "gs_insert",
                [NoLoc EXCEPT !.key = nextKey,
                   !.out = to_vec("SenderPub", sender_pub(SenderKeypair(sid, nextKey)))])
        /\ result' = [result EXCEPT ![p] = NoResult]
        /\ UNCHANGED <<rlock, slock>>
        /\ Succeeds
     \/ /\ Return(p, Err("SerializationFailed"), nextKey, <<>>)
        /\ Fails
  /\ UNCHANGED <<registries, nSeal, nOpen, handed>>

\* line 65: SENDER_KEYS.lock().unwrap().insert(sid, sender);
GenSenderInsert(p) ==
  /\ pc[p] = "gs_insert"
  /\ CanLock(slock)
  /\ SENDER_KEYS' = Insert(SENDER_KEYS, call[p].id,
                           SenderKeypair(call[p].id, loc[p].key))
  /\ pc' = [pc EXCEPT ![p] = "gs_alloc"]
  /\ UNCHANGED <<RECIPIENT_KEYS, rlock, slock, call, loc, result, counters, handed>>

\* lines 67-70
GenSenderFinish(p) ==
  /\ pc[p] = "gs_alloc"
  /\ \/ /\ Return(p, Ok(<<call[p].id, loc[p].out>>), loc[p].key, <<>>)
        /\ issuedS' = issuedS \cup {loc[p].out}
        /\ Succeeds
     \/ /\ Return(p, Err("allocation_failed"), loc[p].key, <<>>)
        /\ UNCHANGED issuedS
        /\ Fails
  /\ UNCHANGED <<registries, call, calls, issuedR, sealed>>

\* ---------------------------------------------------------------- inputs
BinLists(S, lo) == UNION {[1..n -> S] : n \in lo..MaxRecipients}

\* ---------------------------------------------------------------- encrypt
\* The NIF is entered; its first statement (line 83) may block.
EncryptStart(p, message, sender_id, bins) ==
  /\ pc[p] = "idle"
  /\ nSeal < MaxSeals
  /\ nSeal' = nSeal + 1
  /\ call' = [call EXCEPT ![p] =
                [NoCall EXCEPT !.op = "encrypt", !.id = sender_id,
                   !.message = message, !.bins = bins]]
  /\ Goto(p, "e_lock", [NoLoc EXCEPT !.key = nSeal + 1])
  /\ result' = [result EXCEPT ![p] = NoResult]
  /\ UNCHANGED <<registries, rlock, slock, nextKey, nOpen, faults, handed>>

\* The recipients deserialized before the sender is looked up.
EncryptResolvedDeserFirst(sender_id, bins) ==
  IF \E i \in 1..Len(bins) : ~from_slice_ok("RecipientPub", bins[i])
    THEN Err("SerializationFailed")
  ELSE IF sender_id \notin DOMAIN SENDER_KEYS THEN Err("UnknownSender")
  ELSE Ok(<<SENDER_KEYS[sender_id], [i \in 1..Len(bins) |-> from_slice(bins[i])]>>)

\* lines 84-98: the sender lookup, then the recipients' deserialization.
EncryptResolved(sender_id, bins) ==
  IF sender_id \notin DOMAIN SENDER_KEYS THEN Err("UnknownSender")
  ELSE IF \E i \in 1..Len(bins) : ~from_slice_ok("RecipientPub", bins[i])
    THEN Err("SerializationFailed")
  ELSE Ok(<<SENDER_KEYS[sender_id], [i \in 1..Len(bins) |-> from_slice(bins[i])]>>)

\* lines 83-98: let sender_keys = SENDER_KEYS.lock().unwrap(); then the
\* lookup and the deserialization; a `?` return drops the guard.
EncryptResolve(p) ==
  /\ pc[p] = "e_lock"
  /\ CanLock(slock)
  /\ LET r == EncryptResolved(call[p].id, call[p].bins)
     IN IF r.tag = "error"
        THEN Return(p, r, loc[p].key, <<>>)
        ELSE /\ Goto(p, "e_crypto", [loc[p] EXCEPT !.parsed = r.val])
             /\ slock' = p
             /\ UNCHANGED <<rlock, result>>
  /\ UNCHANGED <<registries, call, counters, handed>>

\* lines 101-107: tholos_pq::encrypt(message, sender, &recipients), called
\* with sender borrowed from the guard sender_keys; then the output binary.
\* The guard is dropped at the return.
EncryptCrypto(p) ==
  /\ pc[p] = "e_crypto"
  /\ LET t == TholosEncrypt(call[p].message, loc[p].parsed[1],
                            loc[p].parsed[2], loc[p].key)
     IN \/ /\ Return(p, t.res, loc[p].key, t.prims)
           /\ sealed' = sealed \cup {t.res.val}
           /\ Succeeds
        \/ /\ Return(p, Err("EncapsulationFailed"), loc[p].key,
                     <<"aead_encrypt", "kem_encapsulate">>)
           /\ UNCHANGED sealed
           /\ Fails
        \/ /\ Return(p, Err("allocation_failed"), loc[p].key, t.prims)
           /\ UNCHANGED sealed
           /\ Fails
  /\ UNCHANGED <<registries, call, calls, issuedR, issuedS>>

\* ---------------------------------------------------------------- decrypt
\* The NIF is entered; its first statement (line 120) may block.
DecryptStart(p, wire, kid, bins) ==
  /\ pc[p] = "idle"
  /\ nOpen < MaxOpens
  /\ nOpen' = nOpen + 1
  /\ call' = [call EXCEPT ![p] =
                [NoCall EXCEPT !.op = "decrypt", !.id = kid,
                   !.wire = wire, !.bins = bins]]
  /\ Goto(p, "d_lock", NoLoc)
  /\ result' = [result EXCEPT ![p] = NoResult]
  /\ UNCHANGED <<registries, rlock, slock, nextKey, nSeal, faults, handed>>

\* An allow-list topped up with every sender the registry holds.
AllowedSendersAndRegistered(bins) ==
  [i \in 1..Len(bins) |->
     <<from_slice(bins[i]).sid, from_slice(bins[i]).pk_dilithium>>]
  \o LET registered == SelectSeq(<<"bob", "dave">>, LAMBDA x : x \in DOMAIN SENDER_KEYS)
     IN [i \in 1..Len(registered) |->
           <<registered[i], SENDER_KEYS[registered[i]].pk_dilithium>>]

\* lines 126-136: the allow-list handed to tholos_pq::decrypt.
AllowedSenders(bins) ==
  [i \in 1..Len(bins) |->
     <<from_slice(bins[i]).sid, from_slice(bins[i]).pk_dilithium>>]

\* lines 121-136: the recipient lookup, then the allow-list's deserialization.
DecryptResolved(kid, bins) ==
  IF kid \notin DOMAIN RECIPIENT_KEYS THEN Err("UnknownRecipient")
  ELSE IF \E i \in 1..Len(bins) : ~from_slice_ok("SenderPub", bins[i])
    THEN Err("SerializationFailed")
  ELSE Ok(<<RECIPIENT_KEYS[kid][2], AllowedSenders(bins)>>)

\* A lookup that takes the entry out of the map (HashMap::remove for get).
DecryptResolveTaking(p) ==
  /\ pc[p] = "d_lock"
  /\ CanLock(rlock)
  /\ LET r == DecryptResolved(call[p].id, call[p].bins)
     IN IF r.tag = "error"
        THEN Return(p, r, 0, <<>>)
        ELSE /\ Goto(p, "d_crypto", [loc[p] EXCEPT !.parsed = r.val])
             /\ rlock' = p
             /\ UNCHANGED <<slock, result>>
  /\ RECIPIENT_KEYS' = [k \in (DOMAIN RECIPIENT_KEYS) \ {call[p].id} |->
                          RECIPIENT_KEYS[k]]
  /\ UNCHANGED <<SENDER_KEYS, call, counters, handed>>

\* lines 120-136: let recipient_keys = RECIPIENT_KEYS.lock().unwrap(); then
\* the lookup and the deserialization; a `?` return drops the guard.
DecryptResolve(p) ==
  /\ pc[p] = "d_lock"
  /\ CanLock(rlock)
  /\ LET r == DecryptResolved(call[p].id, call[p].bins)
     IN IF r.tag = "error"
        THEN Return(p, r, 0, <<>>)
        ELSE /\ Goto(p, "d_crypto", [loc[p] EXCEPT !.parsed = r.val])
             /\ rlock' = p
             /\ UNCHANGED <<slock, result>>
  /\ UNCHANGED <<registries, call, counters, handed>>

\* lines 139-146: tholos_pq::decrypt(wire, &kid, &priv_key.sk_kyber, &allowed),
\* called with priv_key borrowed from the guard recipient_keys; then the
\* output binary.  The guard is dropped at the return.
DecryptCrypto(p) ==
  /\ pc[p] = "d_crypto"
  /\ LET t == TholosDecrypt(call[p].wire, call[p].id,
                            loc[p].parsed[1].sk_kyber, loc[p].parsed[2])
     IN \/ Return(p, t.res, 0, t.prims) /\ Succeeds
        \/ /\ t.res.tag = "ok"
           /\ Return(p, Err("allocation_failed"), 0, t.prims)
           /\ Fails
  /\ UNCHANGED <<registries, call, calls, handed>>

\* ------------------------------------------------------- the whole system
Wires == sealed \cup {Tamper(w) : w \in sealed}

\* A caller enters a NIF.
Enter(p) ==
  \/ \E kid \in KIDS : GenRecipientStart(p, kid)
  \/ \E sid \in SIDS : GenSenderStart(p, sid)
  \/ \E m \in Messages, sid \in SIDS, bins \in BinLists(issuedR \cup {Junk}, 1) :
       EncryptStart(p, m, sid, bins)
  \/ \E w \in Wires, kid \in KIDS, bins \in BinLists(issuedS \cup {Junk}, 0) :
       DecryptStart(p, w, kid, bins)

\* A caller inside a NIF takes its next step.
Step(p) ==
  \/ GenRecipientInsert(p) \/ GenRecipientFinish(p)
  \/ GenSenderInsert(p) \/ GenSenderFinish(p)
  \/ EncryptResolve(p) \/ EncryptCrypto(p)
  \/ DecryptResolve(p) \/ DecryptCrypto(p)

Next == \E p \in Procs : Enter(p) \/ Step(p)

Spec == Init /\ [][Next]_vars

\* The scheduler runs every caller that can take a step.
FairSpec == Spec /\ \A p \in Procs : WF_vars(Step(p))

\* ================================================================ claims
Finished(p, op) == pc[p] = "idle" /\ call[p].op = op
Addressed(w, kid) == \E i \in 1..Len(w.recipients) : w.recipients[i].recipient_id = kid
WellFormed(typ, bins) == \A i \in 1..Len(bins) : from_slice_ok(typ, bins[i])
\* The public identity generate_sender returned for the key that signed w.
SignerIdentity(w) ==
  to_vec("SenderPub", [sid |-> w.sender_id, pk_dilithium |-> <<"pk", w.signature.signer>>])

\* C1: round trip.  Opening an envelope that seal produced, as any recipient
\* it was sealed for, with the allow-list [the sender's public identity],
\* returns the sealed plaintext (an allocation failure of the open aside).
RoundTrip ==
  \A p \in Procs :
    ( /\ Finished(p, "decrypt")
      /\ call[p].wire \in sealed
      /\ Addressed(call[p].wire, call[p].id)
      /\ call[p].bins = <<SignerIdentity(call[p].wire)>>
      /\ result[p] # Err("allocation_failed") )
    => result[p] = Ok(call[p].wire.payload.body)

\* C2: a generate call on an id already in its registry fails with
\* DuplicateIdentifier, and a stored keypair never changes.
DuplicateRejected ==
  [][ /\ \A k \in DOMAIN RECIPIENT_KEYS :
           k \in DOMAIN RECIPIENT_KEYS' /\ RECIPIENT_KEYS'[k] = RECIPIENT_KEYS[k]
      /\ \A k \in DOMAIN SENDER_KEYS :
           k \in DOMAIN SENDER_KEYS' /\ SENDER_KEYS'[k] = SENDER_KEYS[k]
      /\ \A p \in Procs :
           /\ (pc[p] = "gr_insert" /\ pc'[p] # "gr_insert"
                 /\ call[p].id \in DOMAIN RECIPIENT_KEYS)
              => result'[p] = Err("DuplicateIdentifier")
           /\ (pc[p] = "gs_insert" /\ pc'[p] # "gs_insert"
                 /\ call[p].id \in DOMAIN SENDER_KEYS)
              => result'[p] = Err("DuplicateIdentifier") ]_vars

\* C3: no registry lock is held while the cryptographic call of a seal or an
\* open runs, so no generate call waits on a lock for that long.
NoLockDuringCrypto ==
  \A p \in Procs :
    /\ pc[p] = "e_crypto" => slock # p
    /\ pc[p] = "d_crypto" => rlock # p
    /\ pc[p] = "gs_insert" => \A q \in Procs : ~(pc[q] = "e_crypto" /\ slock = q)
    /\ pc[p] = "gr_insert" => \A q \in Procs : ~(pc[q] = "d_crypto" /\ rlock = q)

\* C4: in an open, decapsulation and symmetric decryption happen only after
\* the signature has verified; when the verification fails the open ends in
\* SignatureInvalid with neither of them invoked.
VerifyOk(c) ==
  /\ WellFormed("SenderPub", c.bins)
  /\ LET allowed == AllowedSenders(c.bins)
         ai == FirstMatch(allowed, LAMBDA a : a[1] = c.wire.sender_id)
     IN /\ ai # 0
        /\ verify(allowed[ai][2],
                  CanonicalDigest(c.wire.sender_id, RecipientIds(c.wire.recipients),
                                  c.wire.payload),
                  c.wire.signature)

VerifyBeforeDecrypt ==
  \A p \in Procs :
    Finished(p, "decrypt") =>
      /\ \A i \in 1..Len(loc[p].prims) :
           loc[p].prims[i] \in {"kem_decapsulate", "aead_decrypt"}
             => i > 1 /\ loc[p].prims[1] = "verify" /\ VerifyOk(call[p])
      /\ (loc[p].prims # <<>> /\ ~VerifyOk(call[p]))
           => result[p] = Err("SignatureInvalid") /\ loc[p].prims = <<"verify">>
      /\ result[p] = Err("SignatureInvalid") => loc[p].prims = <<"verify">>

VerifyBeforeDecryptWitness ==
  \E p \in Procs : Finished(p, "decrypt") /\ result[p] = Err("SignatureInvalid")

\* C5: a seal whose sender id is not registered fails with UnknownSender, an
\* open whose recipient id is not registered fails with UnknownRecipient,
\* as the first step of the call, whatever the other arguments, and with no
\* cryptographic primitive invoked.
UnknownKeyRejected ==
  [][ \A p \in Procs :
        /\ (pc[p] = "e_lock" /\ pc'[p] # "e_lock"
              /\ call[p].id \notin DOMAIN SENDER_KEYS)
           => /\ pc'[p] = "idle"
              /\ result'[p] = Err("UnknownSender")
              /\ loc'[p].prims = <<>>
        /\ (pc[p] = "d_lock" /\ pc'[p] # "d_lock"
              /\ call[p].id \notin DOMAIN RECIPIENT_KEYS)
           => /\ pc'[p] = "idle"
              /\ result'[p] = Err("UnknownRecipient")
              /\ loc'[p].prims = <<>> ]_vars

UnknownKeyRejectedWitness ==
  \E p \in Procs :
    /\ Finished(p, "encrypt")
    /\ result[p] = Err("UnknownSender")
    /\ \E i \in 1..Len(call[p].bins) : call[p].bins[i] = Junk

\* C6: an open of a sealed envelope, by a recipient it is addressed to and
\* with an allow-list of sender identities none of which carries the
\* envelope's sender id, fails with UntrustedSender, whatever the sender
\* registry holds.
UntrustedRejected ==
  \A p \in Procs :
    ( /\ Finished(p, "decrypt")
      /\ call[p].wire \in sealed
      /\ Addressed(call[p].wire, call[p].id)
      /\ WellFormed("SenderPub", call[p].bins)
      /\ \A i \in 1..Len(call[p].bins) :
           from_slice(call[p].bins[i]).sid # call[p].wire.sender_id )
    => result[p] = Err("UntrustedSender") /\ loc[p].prims = <<>>

UntrustedRejectedWitness ==
  \E p \in Procs :
    /\ Finished(p, "decrypt")
    /\ result[p] = Err("UntrustedSender")
    /\ call[p].wire \in sealed
    /\ Len(call[p].bins) > 0
    /\ call[p].wire.sender_id \in DOMAIN SENDER_KEYS

\* C7: insertions are serialized.  Every change of a registry is one
\* generate call putting its own complete keypair under its own id while no
\* other caller holds the lock, with every other entry kept; so the id of
\* every generate call that returned success is in the registry, and every
\* entry a lookup can see is a whole keypair made for that id.
WholeEntries ==
  /\ \A k \in DOMAIN RECIPIENT_KEYS :
       \E g \in 1..MaxKeys : RECIPIENT_KEYS[k] = RecipientEntry(k, g)
  /\ \A k \in DOMAIN SENDER_KEYS :
       \E g \in 1..MaxKeys : SENDER_KEYS[k] = SenderKeypair(k, g)

Stored(p) ==
  \/ /\ call[p].op = "gen_recipient_keypair"
     /\ call[p].id \in DOMAIN RECIPIENT_KEYS
     /\ RECIPIENT_KEYS[call[p].id] = RecipientEntry(call[p].id, loc[p].key)
  \/ /\ call[p].op = "gen_sender_keypair"
     /\ call[p].id \in DOMAIN SENDER_KEYS
     /\ SENDER_KEYS[call[p].id] = SenderKeypair(call[p].id, loc[p].key)

Generated(p) ==
  /\ pc[p] = "idle"
  /\ call[p].op \in {"gen_recipient_keypair", "gen_sender_keypair"}
  /\ result[p].tag = "ok"

OneInsert(old, new, lock, p, entry) ==
  /\ lock = NoProc
  /\ DOMAIN new = (DOMAIN old) \cup {call[p].id}
  /\ new[call[p].id] = entry
  /\ \A k \in (DOMAIN old) \ {call[p].id} : new[k] = old[k]

InsertsSerialized ==
  /\ [](WholeEntries /\ \A p \in Procs :
          Generated(p) =>
            /\ call[p].op = "gen_recipient_keypair" => call[p].id \in DOMAIN RECIPIENT_KEYS
            /\ call[p].op = "gen_sender_keypair" => call[p].id \in DOMAIN SENDER_KEYS)
  /\ [][ /\ RECIPIENT_KEYS' # RECIPIENT_KEYS =>
              \E p \in Procs :
                /\ pc[p] = "gr_insert" /\ pc'[p] = "gr_alloc"
                /\ OneInsert(RECIPIENT_KEYS, RECIPIENT_KEYS', rlock, p,
                             RecipientEntry(call[p].id, loc[p].key))
         /\ SENDER_KEYS' # SENDER_KEYS =>
              \E p \in Procs :
                /\ pc[p] = "gs_insert" /\ pc'[p] = "gs_alloc"
                /\ OneInsert(SENDER_KEYS, SENDER_KEYS', slock, p,
                             SenderKeypair(call[p].id, loc[p].key)) ]_vars

\* Two generate calls on distinct ids of one registry have both returned
\* success and both keypairs are stored.
InsertsSerializedWitness ==
  \E p, q \in Procs :
    /\ p # q
    /\ Generated(p) /\ Generated(q)
    /\ call[p].op = call[q].op /\ call[p].id # call[q].id
    /\ Stored(p) /\ Stored(q)

\* C8: a step of a seal or of an open, succeeding or failing, leaves both
\* registries as they were.
SealOpenReadOnly ==
  [][ (\E p \in Procs : pc'[p] # pc[p] /\ call'[p].op \in {"encrypt", "decrypt"})
        => (RECIPIENT_KEYS' = RECIPIENT_KEYS /\ SENDER_KEYS' = SENDER_KEYS) ]_vars

SealOpenReadOnlyWitness ==
  \E p \in Procs :
    /\ Finished(p, "decrypt")
    /\ result[p].tag = "ok"
    /\ call[p].id \in DOMAIN RECIPIENT_KEYS
    /\ call[p].wire.sender_id \in DOMAIN SENDER_KEYS

\* C9: a generate call that returned an error has stored no keypair.
FailedGenerateStoresNothing ==
  \A p \in Procs :
    ( /\ pc[p] = "idle"
      /\ call[p].op \in {"gen_recipient_keypair", "gen_sender_keypair"}
      /\ result[p].tag = "error" )
    => ~Stored(p)

\* C10: a caller holds at most one registry lock, the one of its operation,
\* and none once it has returned; under fair scheduling every call returns.
LockDiscipline ==
  \A p \in Procs :
    /\ ~(rlock = p /\ slock = p)
    /\ rlock = p => pc[p] # "idle" /\ call[p].op \in {"gen_recipient_keypair", "decrypt"}
    /\ slock = p => pc[p] # "idle" /\ call[p].op \in {"gen_sender_keypair", "encrypt"}

EveryCallReturns ==
  /\ []LockDiscipline
  /\ \A p \in Procs : (pc[p] # "idle") ~> (pc[p] = "idle")

\* A caller waits on a lock that another caller holds.
EveryCallReturnsWitness ==
  \E p, q \in Procs :
    \/ pc[p] = "e_crypto" /\ slock = p /\ pc[q] = "gs_insert"
    \/ pc[p] = "d_crypto" /\ rlock = p /\ pc[q] = "gr_insert"

====
